---------------------------- MODULE Spec2Model ----------------------------
(***************************************************************************)
(* Model of src/main.py: the POST /process pipeline of the image service.  *)
(*                                                                         *)
(* process_images is an `async def` handler: it runs on one event loop, so *)
(* another request can run only while a request is suspended at an await   *)
(* (lines 98 and 99).  From the resumption of the second await to the      *)
(* return the handler is synchronous code; `turn` names the request that   *)
(* holds the event loop.  The clock of the TTLCache (time.monotonic) is    *)
(* real time and advances between any two steps, also inside the           *)
(* synchronous part.                                                       *)
(***************************************************************************)
EXTENDS Naturals, Integers, Sequences, FiniteSets, TLC

(************************* bounds of the model ****************************)
\* number of requests the model follows when clients send any request
NReq == 2
\* number of requests the model follows when clients send well-formed ones
NRepeat == 3
\* last clock value the model follows (in units of one TTL-clock tick)
MaxTime == 2
\* capacity of the cache: TTLCache(maxsize=100) of main.py:31, scaled down
maxsize == 2
\* lifetime of an entry: TTLCache(ttl=3600) of main.py:31, scaled down
ttl == 2

\* number of requests served one after the other (see SpecLRU)
NLru == 4

Max(a, b) == IF a > b THEN a ELSE b
Req == 1..Max(NReq, Max(NRepeat, NLru))
None == "none"

(************************* inputs of a request ****************************)
\* Upload contents: A and B are decodable images, X is not an image.
Contents == {"A", "B", "X"}
Decodable(content) == content \in {"A", "B"}

\* Declared filenames, as sequences of characters; <<>> is the missing or
\* empty filename.
NoName == <<>>
GoodName == <<"a", ".", "P", "N", "G">>
BadName == <<"a", ".", "t", "x", "t">>
FileNames == {NoName, GoodName, BadName}

\* The filenames handed to allowed_file on its own: up to MaxParts pieces
\* put one after the other, in every order.
MaxParts == 3
NameParts ==
    {<<"a">>, <<".">>, <<"p", "n", "g">>, <<"n", "o", "e", "x", "t">>,
     <<".", "p", "n", "g">>, <<".", "P", "N", "G">>, <<".", "j", "p", "g">>,
     <<".", "J", "p", "e", "G">>, <<".", "t", "x", "t">>}
RECURSIVE NamesOf(_)
NamesOf(n) ==
    IF n = 0 THEN {<<>>}
    ELSE LET shorter == NamesOf(n - 1)
         IN  shorter \cup {s \o part : s \in shorter, part \in NameParts}
Names == NamesOf(MaxParts)

UPLOAD_FOLDER == "static/uploads"
OUTPUT_FOLDER == "static/output"
ALLOWED_EXTENSIONS == {<<"p", "n", "g">>, <<"j", "p", "g">>, <<"j", "p", "e", "g">>}

(***************************** pure helpers *******************************)
\* str.lower() on the characters the model uses
LowerChar(ch) ==
    CASE ch = "P" -> "p"
      [] ch = "N" -> "n"
      [] ch = "G" -> "g"
      [] ch = "J" -> "j"
      [] ch = "E" -> "e"
      [] ch = "T" -> "t"
      [] ch = "X" -> "x"
      [] ch = "A" -> "a"
      [] OTHER -> ch
Lower(s) == [i \in 1..Len(s) |-> LowerChar(s[i])]

\* position of the last '.' of s, 0 when there is none
LastDot(s) ==
    IF \E i \in 1..Len(s) : s[i] = "."
    THEN CHOOSE i \in 1..Len(s) : s[i] = "." /\ \A j \in (i+1)..Len(s) : s[j] # "."
    ELSE 0

\* filename.rsplit('.', 1)[1]
RSplitExt(s) == SubSeq(s, LastDot(s) + 1, Len(s))

\* (mutant) the extension is compared as it is written
AllowedFileCaseSensitive(filename) ==
    /\ \E i \in 1..Len(filename) : filename[i] = "."
    /\ RSplitExt(filename) \in ALLOWED_EXTENSIONS

allowed_file(filename) ==
    /\ \E i \in 1..Len(filename) : filename[i] = "."
    /\ Lower(RSplitExt(filename)) \in ALLOWED_EXTENSIONS

\* hashlib.sha256(...).hexdigest(): a fixed-length hex string, one per
\* content (collision-free on the contents of the model)
get_file_hash(file_content) ==
    CASE file_content = "A" -> <<"0", "a">>
      [] file_content = "B" -> <<"a", "0">>
      [] OTHER -> <<"f", "f">>

\* (mutant) a key that forgets which upload is the source
CacheKeyUnordered(source_content, dest_content) ==
    IF source_content = "A" \/ dest_content # "A"
    THEN get_file_hash(source_content) \o <<":">> \o get_file_hash(dest_content)
    ELSE get_file_hash(dest_content) \o <<":">> \o get_file_hash(source_content)

\* f"{get_file_hash(source_content)}:{get_file_hash(dest_content)}"
CacheKey(source_content, dest_content) ==
    get_file_hash(source_content) \o <<":">> \o get_file_hash(dest_content)


(************************ cache = TTLCache(...) ***************************)
\* The cache is the sequence of its entries in the order of TTLCache's
\* __links (least recently used first); an entry is a key, its value and
\* the time at which it expires.
Entry(k, v, e) == [key |-> k, value |-> v, expires |-> e]
Keys(c) == {c[i].key : i \in 1..Len(c)}
IndexOf(c, k) == CHOOSE i \in 1..Len(c) : c[i].key = k
Without(c, k) == SelectSeq(c, LAMBDA e : e.key # k)

\* TTLCache.__contains__: the key has a link and the link has not expired
Contains(c, k, t) == \E i \in 1..Len(c) : c[i].key = k /\ t < c[i].expires

\* (mutant) a read that leaves the order of __links alone
GetItemNoTouch(c, k, t) ==
    IF k \notin Keys(c)
    THEN [cache |-> c, raised |-> TRUE, value |-> <<>>]
    ELSE LET e == c[IndexOf(c, k)]
         IN  IF t < e.expires
             THEN [cache |-> c, raised |-> FALSE, value |-> e.value]
             ELSE [cache |-> c, raised |-> TRUE, value |-> <<>>]

\* (mutant) a read that restarts the lifetime of the entry
GetItemSliding(c, k, t) ==
    IF k \notin Keys(c)
    THEN [cache |-> c, raised |-> TRUE, value |-> <<>>]
    ELSE LET e == c[IndexOf(c, k)]
         IN  IF t < e.expires
             THEN [cache |-> Append(Without(c, k), Entry(k, e.value, t + ttl)),
                   raised |-> FALSE, value |-> e.value]
             ELSE [cache |-> Append(Without(c, k), e), raised |-> TRUE, value |-> <<>>]

\* TTLCache.__getitem__: __getlink moves the link to the end of __links,
\* then an expired or missing key raises KeyError
GetItem(c, k, t) ==
    IF k \notin Keys(c)
    THEN [cache |-> c, raised |-> TRUE, value |-> <<>>]
    ELSE LET e == c[IndexOf(c, k)]
             moved == Append(Without(c, k), e)
         IN  IF t < e.expires
             THEN [cache |-> moved, raised |-> FALSE, value |-> e.value]
             ELSE [cache |-> moved, raised |-> TRUE, value |-> <<>>]

\* TTLCache.expire(time): drop every entry whose time has come
Expire(c, t) == SelectSeq(c, LAMBDA e : t < e.expires)

\* (mutant) room is made only once the cache is over its capacity
MakeRoomLate(c) == IF Len(c) > maxsize THEN Tail(c) ELSE c

\* Cache.__setitem__'s `while currsize + size > maxsize: popitem()`, each
\* popitem removing the first key of __links
RECURSIVE MakeRoom(_)
MakeRoom(c) == IF Len(c) + 1 > maxsize THEN MakeRoom(Tail(c)) ELSE c

\* (mutant) a key that has a link keeps the value it has
SetItemKeepFirst(c, k, v, t) ==
    IF k \in Keys(c) THEN c
    ELSE Append(MakeRoom(Expire(c, t)), Entry(k, v, t + ttl))

\* TTLCache.__setitem__: expire, make room for a new key, store the value,
\* move the key to the end of __links and restart its lifetime
SetItem(c, k, v, t) ==
    LET live == Expire(c, t)
        room == IF k \in Keys(live) THEN live ELSE MakeRoom(live)
    IN  Append(Without(room, k), Entry(k, v, t + ttl))

(**************************** Transformer *********************************)
\* What can go wrong in process_image besides the bytes not being an image:
\* the encoder failing in img.save.
XformFaults == {"none", "encode"}
NoImage == [mode |-> "none", of |-> "none"]
\* scratch files of one call: the input copy (line 46) and the output (line 50)
TmpIn(r, role) == <<r, role, "in">>
TmpOut(r, role) == <<r, role, "out">>

\* process_image(content), called by request r for the upload in `role`.
\* ok: returned (FALSE: raised); out: the PNG bytes; cause: str(e);
\* left: the scratch files that exist when the call ends.
process_image(content, fault, r, role) ==
    IF ~Decodable(content)
    THEN \* Image.open raises at line 49, before any unlink
         [ok |-> FALSE, out |-> NoImage, cause |-> "cannot identify image file",
          left |-> {TmpIn(r, role)}]
    ELSE IF fault = "encode"
    THEN \* img.save raises at line 51, before the unlinks of lines 54 and 55
         [ok |-> FALSE, out |-> NoImage, cause |-> "encoder error",
          left |-> {TmpIn(r, role), TmpOut(r, role)}]
    ELSE [ok |-> TRUE, out |-> [mode |-> "L", of |-> content], cause |-> "",
          left |-> {}]

(******************************* Store ************************************)
\* What can go wrong in save_output_image: makedirs or open failing (no
\* file), or the write failing after open created the file.
StoreFaults == {"none", "open", "write"}
Truncated == [mode |-> "truncated", of |-> "none"]
HexDigits == <<"0", "1", "2", "3", "4", "5", "6", "7",
               "8", "9", "a", "b", "c", "d", "e", "f">>
\* uuid.uuid4().hex of the n-th call
UuidHex(n) == HexDigits[(n % 16) + 1]
\* (mutant) a name that depends on the role only
OutputNameFixed(role, n) == <<role, "_", UuidHex(0), ".png">>
\* f"source_{uuid.uuid4().hex}.png"
OutputName(role, n) == <<role, "_", UuidHex(n), ".png">>
\* os.path.join(output_dir, output_name)
PathJoin(dir, name) == <<dir, "/">> \o name
\* f"/{source_path}"
Url(path) == <<"/">> \o path

\* save_output_image(content, output_dir, output_name) on the directory
\* content `dir` (a set of files): ok, the path returned, the cause raised,
\* and the directory afterwards (open(..., "wb") replaces a file of that name).
save_output_image(content, output_dir, output_name, fault, dir) ==
    LET output_path == PathJoin(output_dir, output_name)
        others == {f \in dir : f.path # output_path}
    IN  CASE fault = "open" ->
               [ok |-> FALSE, path |-> <<>>, cause |-> "permission denied", dir |-> dir]
          [] fault = "write" ->
               [ok |-> FALSE, path |-> <<>>, cause |-> "no space left on device",
                dir |-> others \cup {[path |-> output_path, content |-> Truncated]}]
          [] OTHER ->
               [ok |-> TRUE, path |-> output_path, cause |-> "",
                dir |-> others \cup {[path |-> output_path, content |-> content]}]

(***************************** responses **********************************)
NoUrl == <<>>
JSONError(code, msg) ==
    [status |-> code, error |-> msg, source_result |-> NoUrl, dest_result |-> NoUrl]
JSONResult(s, d) ==
    [status |-> 200, error |-> "", source_result |-> s, dest_result |-> d]
\* the framework's answer to an exception the handler does not catch
ServerError == JSONError(500, "Internal Server Error")
NoResponse == JSONError(0, "")

MsgNoFile == "No file selected"
MsgBadFormat == "Invalid file format. Only PNG, JPG, JPEG allowed"

(******************************* state ************************************)
VARIABLES
    pc,       \* per request: where process_images stands (see Phase)
    inp,      \* per request: the two uploads (declared filename and bytes)
    loc,      \* per request: the local variables of process_images
    resp,     \* per request: the response sent
    cache,    \* the module-level TTLCache
    now,      \* time.monotonic(), the cache's timer
    files,    \* the files of OUTPUT_FOLDER
    scratch,  \* the temporary files that exist
    uuids,    \* number of uuid4() calls made so far
    turn,     \* the request running on the event loop, 0 when it is idle
    hist,     \* per request: what it did (history, read by no action)
    lastPut,  \* per cache key: the request that last wrote it, 0 if none
    touched,  \* the requests that changed the cache object (history)
    order,    \* the cache keys by their last use, oldest first (history)
    probe     \* a filename handed to allowed_file and the answer it got

vars == <<pc, inp, loc, resp, cache, now, files, scratch, uuids, turn, hist,
          lastPut, touched, order, probe>>

AllKeys == {CacheKey(s, d) : s \in Contents, d \in Contents}

Upload(sn, dn, s, d) == [sname |-> sn, dname |-> dn, src |-> s, dst |-> d]
\* The requests clients send: every pair of declared filenames, and with
\* acceptable filenames every pair of contents (the handler reads no bytes
\* of a request it rejects).
Uploads ==
    {Upload(sn, dn, "A", "B") : sn \in FileNames, dn \in FileNames}
    \cup {Upload(GoodName, GoodName, s, d) : s \in Contents, d \in Contents}

\* The well-formed requests: acceptable filenames and images that decode.
GoodUploads == {Upload(GoodName, GoodName, s, d) : s \in {"A", "B"}, d \in {"A", "B"}}

NoUpload == [sname |-> NoName, dname |-> NoName, src |-> None, dst |-> None]
NoLocals ==
    [source_content |-> None, dest_content |-> None, cache_key |-> <<>>,
     result_urls |-> <<>>,
     source_processed |-> NoImage, dest_processed |-> NoImage,
     source_filename |-> <<>>, dest_filename |-> <<>>,
     source_path |-> <<>>, dest_path |-> <<>>]
NoHist ==
    [xlog |-> <<>>,        \* the uploads passed to process_image, in order
     xfailed |-> <<>>,     \* <<upload, cause>> of each call that raised
     slog |-> <<>>,        \* the results passed to save_output_image, in order
     sfailed |-> <<>>,     \* <<result, cause>> of each call that raised
     wrote |-> {},         \* the paths this request wrote in OUTPUT_FOLDER
     checked |-> FALSE,    \* line 105 ran
     hit |-> FALSE,        \* line 105 found the key
     checkTime |-> 0,      \* the time of the membership test of line 105
     present |-> FALSE,    \* the key had an entry in the cache at line 105
     from |-> 0,           \* the request whose entry line 105 looked at
     inflight |-> {},      \* the requests received and not answered at line 105
     readTime |-> 0,       \* the time of the read of line 106
     putTime |-> 0,        \* the time of the cache write of line 127
     put |-> FALSE]        \* line 127 ran

Probe(filename) == [filename |-> filename, asked |-> FALSE, answer |-> FALSE]

\* the server after start-up: no request yet, an empty cache
InitServer ==
    /\ pc = [r \in Req |-> "Idle"]
    /\ inp = [r \in Req |-> NoUpload]
    /\ loc = [r \in Req |-> NoLocals]
    /\ resp = [r \in Req |-> NoResponse]
    /\ cache = <<>>
    /\ now = 0
    /\ files = {}
    /\ scratch = {}
    /\ uuids = 0
    /\ turn = 0
    /\ hist = [r \in Req |-> NoHist]
    /\ lastPut = [k \in AllKeys |-> 0]
    /\ touched = {}
    /\ order = <<>>

Init == InitServer /\ probe = Probe(NoName)

\* The state of the request's state machine that a position stands for.
Phase(p) ==
    CASE p = "AwaitDest" -> "Validated"
      [] p = "ProcessingDest" -> "Processing"
      [] p \in {"StoredSource", "StoredBoth"} -> "Stored"
      [] OTHER -> p

Entries(c) == {c[i] : i \in 1..Len(c)}

(****************************** actions ***********************************)
\* A client sends POST /process; requests are numbered in order of arrival.
Receive(r, u) ==
    /\ pc[r] = "Idle"
    /\ \A q \in 1..(r - 1) : pc[q] # "Idle"
    /\ inp' = [inp EXCEPT ![r] = u]
    /\ pc' = [pc EXCEPT ![r] = "Received"]
    /\ UNCHANGED <<loc, resp, cache, now, files, scratch, uuids, turn, hist,
                 lastPut, touched, order, probe>>

\* (mutant) one acceptable filename is enough
ValidationErrorAny(sname, dname) ==
    IF sname = NoName \/ dname = NoName
    THEN JSONError(400, MsgNoFile)
    ELSE IF ~(allowed_file(sname) \/ allowed_file(dname))
    THEN JSONError(400, MsgBadFormat)
    ELSE NoResponse

\* lines 91-95: the response of the validation, NoResponse when it passes
ValidationError(sname, dname) ==
    IF sname = NoName \/ dname = NoName
    THEN JSONError(400, MsgNoFile)
    ELSE IF ~(allowed_file(sname) /\ allowed_file(dname))
    THEN JSONError(400, MsgBadFormat)
    ELSE NoResponse

\* (mutant) the source upload is read before the filenames are looked at
ValidateAfterRead(r) ==
    /\ pc[r] = "Received"
    /\ turn = 0
    /\ loc' = [loc EXCEPT ![r].source_content = inp[r].src]
    /\ LET err == ValidationError(inp[r].sname, inp[r].dname)
       IN  IF err # NoResponse
           THEN /\ pc' = [pc EXCEPT ![r] = "Errored"]
                /\ resp' = [resp EXCEPT ![r] = err]
           ELSE /\ pc' = [pc EXCEPT ![r] = "Validated"]
                /\ UNCHANGED resp
    /\ UNCHANGED <<inp, cache, now, files, scratch, uuids, turn, hist, lastPut>>

\* lines 89-98: the handler starts, validates and suspends in the first read
Validate(r) ==
    /\ pc[r] = "Received"
    /\ turn = 0
    /\ LET err == ValidationError(inp[r].sname, inp[r].dname)
       IN  IF err # NoResponse
           THEN /\ pc' = [pc EXCEPT ![r] = "Errored"]
                /\ resp' = [resp EXCEPT ![r] = err]
           ELSE /\ pc' = [pc EXCEPT ![r] = "Validated"]
                /\ UNCHANGED resp
    /\ UNCHANGED <<inp, loc, cache, now, files, scratch, uuids, turn, hist, lastPut>>

\* line 98 resumes with the source bytes; line 99 suspends
ReadSource(r) ==
    /\ pc[r] = "Validated"
    /\ turn = 0
    /\ loc' = [loc EXCEPT ![r].source_content = inp[r].src]
    /\ pc' = [pc EXCEPT ![r] = "AwaitDest"]
    /\ UNCHANGED <<inp, resp, cache, now, files, scratch, uuids, turn, hist, lastPut>>

\* line 99 resumes with the dest bytes; lines 101-102 compute the key.  From
\* here to its return the handler does not await: it keeps the event loop.
ReadDest(r) ==
    /\ pc[r] = "AwaitDest"
    /\ turn = 0
    /\ loc' = [loc EXCEPT ![r].dest_content = inp[r].dst,
                          ![r].cache_key = CacheKey(loc[r].source_content, inp[r].dst)]
    /\ pc' = [pc EXCEPT ![r] = "CacheChecked"]
    /\ turn' = r
    /\ UNCHANGED <<inp, resp, cache, now, files, scratch, uuids, hist, lastPut>>

\* line 105: if cache_key in cache
CacheCheck(r) ==
    /\ pc[r] = "CacheChecked"
    /\ turn = r
    /\ LET k == loc[r].cache_key
           found == Contains(cache, k, now)
       IN  /\ pc' = [pc EXCEPT ![r] = IF found THEN "CacheHit" ELSE "Processing"]
           /\ hist' = [hist EXCEPT ![r].checked = TRUE,
                                   ![r].hit = found,
                                   ![r].checkTime = now,
                                   ![r].present = (k \in Keys(cache)),
                                   ![r].from = lastPut[k],
                                   ![r].inflight =
                                       {q \in Req \ {r} : pc[q] \notin
                                           {"Idle", "Responded", "Errored"}}]
    /\ UNCHANGED <<inp, loc, resp, cache, now, files, scratch, uuids, turn, lastPut>>

\* (mutant) the two locations change places
HitResponseSwapped(result_urls) == JSONResult(result_urls[2], result_urls[1])

\* line 108: the response of a cache hit
HitResponse(result_urls) == JSONResult(result_urls[1], result_urls[2])

\* lines 106-108: result_urls = cache[cache_key], then the response; the
\* KeyError of an entry that expired since line 105 is caught by nobody
CacheRead(r) ==
    /\ pc[r] = "CacheHit"
    /\ turn = r
    /\ LET got == GetItem(cache, loc[r].cache_key, now)
       IN  /\ cache' = got.cache
           /\ IF got.raised
              THEN /\ pc' = [pc EXCEPT ![r] = "Errored"]
                   /\ resp' = [resp EXCEPT ![r] = ServerError]
                   /\ UNCHANGED loc
              ELSE /\ pc' = [pc EXCEPT ![r] = "Responded"]
                   /\ loc' = [loc EXCEPT ![r].result_urls = got.value]
                   /\ resp' = [resp EXCEPT ![r] = HitResponse(got.value)]
           /\ hist' = [hist EXCEPT ![r].readTime = now]
    /\ turn' = 0
    /\ UNCHANGED <<inp, now, files, scratch, uuids, lastPut>>

\* (mutant) the exception is swallowed and the pipeline goes on
TransformFailedSwallowed(r, res) ==
    /\ pc' = [pc EXCEPT ![r] = IF pc[r] = "Processing" THEN "ProcessingDest" ELSE "Stored"]
    /\ UNCHANGED <<resp, turn, loc>>

\* lines 114-115: the handler of an exception of process_image
TransformFailed(r, res) ==
    /\ pc' = [pc EXCEPT ![r] = "Errored"]
    /\ resp' = [resp EXCEPT ![r] = JSONError(500, res.cause)]
    /\ turn' = 0
    /\ UNCHANGED loc

\* line 112: source_processed = process_image(source_content)
TransformSource(r, faults) ==
    /\ pc[r] = "Processing"
    /\ turn = r
    /\ \E fault \in faults :
         LET res == process_image(loc[r].source_content, fault, r, "source")
         IN  /\ scratch' = scratch \cup res.left
             /\ hist' = [hist EXCEPT
                           ![r].xlog = Append(@, "source"),
                           ![r].xfailed = IF res.ok THEN @
                                          ELSE Append(@, <<"source", res.cause>>)]
             /\ IF res.ok
                THEN /\ loc' = [loc EXCEPT ![r].source_processed = res.out]
                     /\ pc' = [pc EXCEPT ![r] = "ProcessingDest"]
                     /\ UNCHANGED <<resp, turn>>
                ELSE TransformFailed(r, res)
    /\ UNCHANGED <<inp, cache, now, files, uuids, lastPut>>

\* line 113: dest_processed = process_image(dest_content)
TransformDest(r, faults) ==
    /\ pc[r] = "ProcessingDest"
    /\ turn = r
    /\ \E fault \in faults :
         LET res == process_image(loc[r].dest_content, fault, r, "dest")
         IN  /\ scratch' = scratch \cup res.left
             /\ hist' = [hist EXCEPT
                           ![r].xlog = Append(@, "dest"),
                           ![r].xfailed = IF res.ok THEN @
                                          ELSE Append(@, <<"dest", res.cause>>)]
             /\ IF res.ok
                THEN /\ loc' = [loc EXCEPT ![r].dest_processed = res.out]
                     /\ pc' = [pc EXCEPT ![r] = "Stored"]
                     /\ UNCHANGED <<resp, turn>>
                ELSE TransformFailed(r, res)
    /\ UNCHANGED <<inp, cache, now, files, uuids, lastPut>>

\* (mutant) the failed attempt is memoized
StoreFailedCaching(r, res) ==
    /\ pc' = [pc EXCEPT ![r] = "Errored"]
    /\ resp' = [resp EXCEPT ![r] = JSONError(500, res.cause)]
    /\ turn' = 0
    /\ cache' = SetItem(cache, loc[r].cache_key,
                        <<Url(loc[r].source_path), Url(loc[r].dest_path)>>, now)
    /\ UNCHANGED lastPut

\* (mutant) the exception is swallowed and the pipeline goes on
StoreFailedSwallowed(r, res) ==
    /\ pc' = [pc EXCEPT ![r] = IF pc[r] = "Stored" THEN "StoredSource" ELSE "StoredBoth"]
    /\ UNCHANGED <<resp, turn, cache, lastPut>>

\* (mutant) the store is tried again until it succeeds
StoreFailedRetry(r, res) ==
    /\ pc' = [pc EXCEPT ![r] = "Stored"]
    /\ UNCHANGED <<resp, turn, cache, lastPut>>

\* lines 123-124: the handler of an exception of save_output_image
StoreFailed(r, res) ==
    /\ pc' = [pc EXCEPT ![r] = "Errored"]
    /\ resp' = [resp EXCEPT ![r] = JSONError(500, res.cause)]
    /\ turn' = 0
    /\ UNCHANGED <<cache, lastPut>>

\* the paths of the files of `after` that are new or have new content
Written(before, after) == {f.path : f \in after \ before}

\* lines 119-121: both names are drawn, then the source result is saved
SaveSource(r, faults) ==
    /\ pc[r] = "Stored"
    /\ turn = r
    /\ uuids + 2 <= 2 * Cardinality(Req)
    /\ uuids' = uuids + 2
    /\ \E fault \in faults :
         LET source_filename == OutputName("source", uuids)
             dest_filename == OutputName("dest", uuids + 1)
             res == save_output_image(loc[r].source_processed, OUTPUT_FOLDER,
                                      source_filename, fault, files)
         IN  /\ files' = res.dir
             /\ hist' = [hist EXCEPT ![r].slog = Append(@, "source"),
                                     ![r].sfailed = IF res.ok THEN @
                                          ELSE Append(@, <<"source", res.cause>>),
                                     ![r].wrote = @ \cup Written(files, res.dir)]
             /\ loc' = [loc EXCEPT ![r].source_filename = source_filename,
                                   ![r].dest_filename = dest_filename,
                                   ![r].source_path = res.path]
             /\ IF res.ok
                THEN /\ pc' = [pc EXCEPT ![r] = "StoredSource"]
                     /\ UNCHANGED <<resp, turn, cache, lastPut>>
                ELSE StoreFailed(r, res)
    /\ UNCHANGED <<inp, now, scratch>>

\* line 122: the dest result is saved
SaveDest(r, faults) ==
    /\ pc[r] = "StoredSource"
    /\ turn = r
    /\ \E fault \in faults :
         LET res == save_output_image(loc[r].dest_processed, OUTPUT_FOLDER,
                                      loc[r].dest_filename, fault, files)
         IN  /\ files' = res.dir
             /\ hist' = [hist EXCEPT ![r].slog = Append(@, "dest"),
                                     ![r].sfailed = IF res.ok THEN @
                                          ELSE Append(@, <<"dest", res.cause>>),
                                     ![r].wrote = @ \cup Written(files, res.dir)]
             /\ loc' = [loc EXCEPT ![r].dest_path = res.path]
             /\ IF res.ok
                THEN /\ pc' = [pc EXCEPT ![r] = "StoredBoth"]
                     /\ UNCHANGED <<resp, turn, cache, lastPut>>
                ELSE StoreFailed(r, res)
    /\ UNCHANGED <<inp, now, scratch, uuids>>

\* (mutant) the paths are cached as save_output_image returned them
CachedValuePaths(source_path, dest_path) == <<source_path, dest_path>>

\* line 127: the value cached for a pair
CachedValue(source_path, dest_path) == <<Url(source_path), Url(dest_path)>>

\* line 127: cache[cache_key] = [f"/{source_path}", f"/{dest_path}"]
CachePut(r) ==
    /\ pc[r] = "StoredBoth"
    /\ turn = r
    /\ cache' = SetItem(cache, loc[r].cache_key,
                        CachedValue(loc[r].source_path, loc[r].dest_path), now)
    /\ lastPut' = [lastPut EXCEPT ![loc[r].cache_key] = r]
    /\ hist' = [hist EXCEPT ![r].put = TRUE, ![r].putTime = now]
    /\ pc' = [pc EXCEPT ![r] = "CachePopulated"]
    /\ UNCHANGED <<inp, loc, resp, now, files, scratch, uuids, turn>>

\* line 131: the response of the miss path
MissResponse(source_path, dest_path) == JSONResult(Url(source_path), Url(dest_path))

\* lines 128-131
Respond(r) ==
    /\ pc[r] = "CachePopulated"
    /\ turn = r
    /\ resp' = [resp EXCEPT ![r] = MissResponse(loc[r].source_path, loc[r].dest_path)]
    /\ pc' = [pc EXCEPT ![r] = "Responded"]
    /\ turn' = 0
    /\ UNCHANGED <<inp, loc, cache, now, files, scratch, uuids, hist, lastPut>>

\* time passes
Tick ==
    /\ now < MaxTime
    /\ now' = now + 1
    /\ UNCHANGED <<pc, inp, loc, resp, cache, files, scratch, uuids, turn, hist,
                 lastPut, touched, order, probe>>

\* One step of the handler of request r, where process_image can meet the
\* faults xf and save_output_image the faults sf.
StepOf(r, xf, sf) ==
    /\ \/ Validate(r)
       \/ ReadSource(r)
       \/ ReadDest(r)
       \/ CacheCheck(r)
       \/ CacheRead(r)
       \/ TransformSource(r, xf)
       \/ TransformDest(r, xf)
       \/ SaveSource(r, sf)
       \/ SaveDest(r, sf)
       \/ CachePut(r)
       \/ Respond(r)
    /\ touched' = IF cache' # cache THEN touched \cup {r} ELSE touched
    /\ order' = IF hist'[r].put # hist[r].put \/ (pc[r] = "CacheHit" /\ pc'[r] = "Responded")
                THEN Append(SelectSeq(order, LAMBDA k : k # loc[r].cache_key),
                            loc[r].cache_key)
                ELSE order
    /\ UNCHANGED probe

Step(r) == StepOf(r, XformFaults, StoreFaults)

\* allowed_file(filename) is called and returns
CallAllowedFile ==
    /\ ~probe.asked
    /\ probe' = [probe EXCEPT !.asked = TRUE, !.answer = allowed_file(probe.filename)]
    /\ UNCHANGED <<pc, inp, loc, resp, cache, now, files, scratch, uuids, turn,
                 hist, lastPut, touched, order>>

\* NReq requests of any kind, on a machine whose encoder and disk can fail
Next ==
    \/ \E r \in 1..NReq : \E u \in Uploads : Receive(r, u)
    \/ \E r \in Req : Step(r)
    \/ Tick

Spec == Init /\ [][Next]_vars

\* The event loop runs every handler that can run.
FairSpec == Spec /\ \A r \in Req : WF_vars(Step(r))

\* NRepeat well-formed requests, on a machine that does not fail
NextRepeat ==
    \/ \E r \in 1..NRepeat : \E u \in GoodUploads : Receive(r, u)
    \/ \E r \in Req : StepOf(r, {"none"}, {"none"})
    \/ Tick

SpecRepeat == Init /\ [][NextRepeat]_vars

\* NLru well-formed requests on a machine that does not fail, each sent
\* once the ones before it are answered
ReceiveNext(r, u) ==
    /\ \A q \in Req : pc[q] \in {"Idle", "Responded", "Errored"}
    /\ Receive(r, u)

NextLRU ==
    \/ \E r \in 1..NLru : \E u \in GoodUploads : ReceiveNext(r, u)
    \/ \E r \in Req : StepOf(r, {"none"}, {"none"})
    \/ Tick

SpecLRU == Init /\ [][NextLRU]_vars

\* allowed_file on its own, applied to any of the filenames of Names
InitValidator == InitServer /\ \E name \in Names : probe = Probe(name)
SpecValidator == InitValidator /\ [][CallAllowedFile]_vars

TypeOK ==
    /\ turn \in Req \cup {0}
    /\ now \in 0..MaxTime
    /\ \A r \in Req : resp[r].status \in {0, 200, 400, 500}

(******************************* claims ***********************************)
Terminal == {"Responded", "Errored"}
\* r answered 200 from the cache / after transforming and storing
HitDone(r) == pc[r] = "Responded" /\ hist[r].hit
MissDone(r) == pc[r] = "Responded" /\ ~hist[r].hit
SamePair(r, o) == inp[r].src = inp[o].src /\ inp[r].dst = inp[o].dst

\* C1: a request answered from the cache returns exactly the source_result
\* and dest_result that the request which inserted the entry returned for
\* the same (source bytes, dest bytes), within the lifetime of that entry,
\* and writes no file; and a request that finds the entry of an identical
\* earlier pair still in the cache and unexpired is answered from it.
C1_Idempotent ==
    \A r \in Req :
       LET o == hist[r].from
       IN  /\ HitDone(r) =>
                /\ o \in Req \ {r}
                /\ MissDone(o)
                /\ SamePair(r, o)
                /\ resp[r].status = 200
                /\ resp[r].source_result = resp[o].source_result
                /\ resp[r].dest_result = resp[o].dest_result
                /\ hist[r].readTime < hist[o].putTime + ttl
                /\ hist[r].wrote = {} /\ hist[r].slog = <<>> /\ hist[r].xlog = <<>>
           /\ ( /\ hist[r].checked
                /\ o # 0
                /\ hist[r].present
                /\ hist[r].checkTime < hist[o].putTime + ttl ) => hist[r].hit

C1_Witness == \E r \in Req : HitDone(r) /\ resp[r].source_result # resp[r].dest_result

\* C2: a request that ended with an error response of the handler (400,
\* 500 of a transform, 500 of a store) never changed the cache, and no
\* entry is recorded as written by it.
C2_NoCacheOnFailure ==
    \A r \in Req :
       (pc[r] = "Errored" /\ resp[r] # ServerError) =>
           /\ r \notin touched
           /\ ~hist[r].put
           /\ \A k \in AllKeys : lastPut[k] # r

C2_Witness ==
    \E r \in Req :
       /\ pc[r] = "Errored"
       /\ resp[r].status = 500
       /\ hist[r].slog = <<"source", "dest">>
       /\ cache # <<>>

\* C3: a request with a missing filename is answered 400 "No file
\* selected"; otherwise one with a filename the Validator refuses is
\* answered 400 "Invalid file format..."; only a request whose two
\* filenames are present and accepted reads its uploads and computes a key.
Refused(name) == name = BadName
C3_Validation ==
    \A r \in Req :
       pc[r] \notin {"Idle", "Received"} =>
          IF inp[r].sname = NoName \/ inp[r].dname = NoName
          THEN /\ pc[r] = "Errored" /\ resp[r] = JSONError(400, MsgNoFile)
               /\ loc[r] = NoLocals /\ ~hist[r].checked
          ELSE IF Refused(inp[r].sname) \/ Refused(inp[r].dname)
          THEN /\ pc[r] = "Errored" /\ resp[r] = JSONError(400, MsgBadFormat)
               /\ loc[r] = NoLocals /\ ~hist[r].checked
          ELSE resp[r].status # 400

C3_Witness ==
    \E r, q \in Req :
       /\ inp[r].sname = BadName /\ inp[r].dname = NoName
       /\ resp[r] = JSONError(400, MsgNoFile)
       /\ inp[q].sname = GoodName /\ inp[q].dname = BadName
       /\ resp[q] = JSONError(400, MsgBadFormat)

\* C4: two requests whose distinct images change roles get different
\* keys and neither is answered from the entry of the other; one whose own
\* pair was not submitted before runs both transforms and both stores, and
\* when both succeed it returns locations different from the other's.
Swapped(r, q) ==
    /\ inp[r].src = inp[q].dst
    /\ inp[r].dst = inp[q].src
    /\ inp[r].src # inp[r].dst
C4_OrderSensitive ==
    \A r, q \in Req :
       (r # q /\ Swapped(r, q) /\ hist[r].checked /\ hist[q].checked) =>
           /\ loc[r].cache_key # loc[q].cache_key
           /\ ~(hist[r].hit /\ hist[r].from = q)
           /\ (pc[r] = "Responded" /\ pc[q] = "Responded" /\ hist[r].from = 0) =>
                 /\ hist[r].xlog = <<"source", "dest">>
                 /\ hist[r].slog = <<"source", "dest">>
                 /\ resp[r].source_result # resp[q].source_result
                 /\ resp[r].dest_result # resp[q].dest_result

C4_Witness ==
    \E r, q \in Req :
       r # q /\ Swapped(r, q) /\ pc[r] = "Responded" /\ pc[q] = "Responded"

\* C5: the cache never holds more than maxsize entries.
C5_Bounded == Len(cache) <= maxsize

\* more keys have been inserted than the cache holds, and it is full
C5_Witness ==
    /\ Len(cache) = maxsize
    /\ Cardinality({k \in AllKeys : lastPut[k] # 0}) > maxsize
    /\ \A i \in 1..Len(cache) : now < cache[i].expires

\* C6: the lifetime of an entry runs from its insertion: no lookup at or
\* after insertion time + ttl finds it, whatever reads happened in between;
\* a request that looks the key up after that takes the miss path, runs
\* both transforms and both stores, writes the cache and returns locations
\* different from those of the expired entry.
C6_ExpiryFromInsertion ==
    \A r \in Req :
       LET o == hist[r].from
       IN  (hist[r].checked /\ o # 0) =>
              /\ hist[r].hit => hist[r].checkTime < hist[o].putTime + ttl
              /\ HitDone(r) => hist[r].readTime < hist[o].putTime + ttl
              /\ (hist[r].checkTime >= hist[o].putTime + ttl /\ pc[r] = "Responded") =>
                    /\ ~hist[r].hit
                    /\ hist[r].xlog = <<"source", "dest">>
                    /\ hist[r].slog = <<"source", "dest">>
                    /\ hist[r].put /\ r \in touched
                    /\ resp[r].source_result # resp[o].source_result
                    /\ resp[r].dest_result # resp[o].dest_result

\* an entry is inserted, read by a hit later on, and found expired by a
\* third request, which inserts it again
C6_Witness ==
    \E o, h, m \in Req :
       /\ MissDone(o)
       /\ HitDone(h) /\ hist[h].from = o /\ hist[h].readTime > hist[o].putTime
       /\ MissDone(m) /\ hist[m].from = o /\ SamePair(m, o)
       /\ hist[m].checkTime = hist[o].putTime + ttl

\* C7: a request moves only along the edges of the state machine, and a
\* request in Errored or Responded does nothing more.
Edges ==
    {<<"Idle", "Received">>,
     <<"Received", "Validated">>, <<"Received", "Errored">>,
     <<"Validated", "CacheChecked">>,
     <<"CacheChecked", "CacheHit">>, <<"CacheChecked", "Processing">>,
     <<"CacheHit", "Responded">>,
     <<"Processing", "Stored">>, <<"Processing", "Errored">>,
     <<"Stored", "CachePopulated">>, <<"Stored", "Errored">>,
     <<"CachePopulated", "Responded">>}
C7_StateMachine ==
    [][\A r \in Req :
          /\ pc'[r] # pc[r] =>
                \/ Phase(pc[r]) = Phase(pc'[r])
                \/ <<Phase(pc[r]), Phase(pc'[r])>> \in Edges
          /\ pc[r] \in Terminal =>
                /\ pc'[r] = pc[r]
                /\ resp'[r] = resp[r]
                /\ hist'[r] = hist[r]
                /\ (r \in touched') = (r \in touched)]_vars

\* C8: under fair scheduling every received request is answered.
C8_Terminates == \A r \in Req : (pc[r] = "Received") ~> (pc[r] \in Terminal)

\* all requests are answered, one of them after a failed store
C8_Witness ==
    /\ \A r \in 1..NReq : pc[r] \in Terminal
    /\ \E r \in Req : pc[r] = "Errored" /\ hist[r].slog # <<>>
    /\ \E r \in Req : pc[r] = "Responded"

\* C9: each upload is passed to process_image at most once, the source
\* first; when a call raises, no further call is made, the request ends
\* with a 500 carrying the cause, save_output_image is never called, no
\* file is written and the cache is not changed by the request.
C9_TransformFailureAborts ==
    \A r \in Req :
       /\ hist[r].xlog \in {<<>>, <<"source">>, <<"source", "dest">>}
       /\ hist[r].xfailed # <<>> =>
             /\ Len(hist[r].xfailed) = 1
             /\ hist[r].xlog[Len(hist[r].xlog)] = hist[r].xfailed[1][1]
             /\ pc[r] = "Errored"
             /\ resp[r] = JSONError(500, hist[r].xfailed[1][2])
             /\ hist[r].slog = <<>>
             /\ hist[r].wrote = {}
             /\ r \notin touched

\* one request failed on its source, another on its dest
C9_Witness ==
    \E r, q \in Req :
       /\ hist[r].xfailed # <<>> /\ hist[r].xlog = <<"source">>
       /\ hist[q].xfailed # <<>> /\ hist[q].xlog = <<"source", "dest">>

\* C10: no scratch file exists once process_image has returned or raised
\* (process_image is one step of the model, so: in every state).
C10_ScratchReleased == scratch = {}

\* the files of the output directory that request r wrote
FilesOf(r) == {f \in files : f.path \in hist[r].wrote}
\* the locations that the entries of the cache name
CachedUrls == UNION {{cache[i].value[1], cache[i].value[2]} : i \in 1..Len(cache)}

\* C11 (as claimed): after a failed store the output directory holds no
\* file written by the request, and the answer is a 500 with the cause.
C11_NothingLeft ==
    \A r \in Req :
       hist[r].sfailed # <<>> =>
          /\ pc[r] = "Errored"
          /\ resp[r] = JSONError(500, hist[r].sfailed[1][2])
          /\ FilesOf(r) = {}

\* C11 (amended): a store that raises ends the request with a 500 carrying
\* the cause, no further store is made, the cache is not written and no
\* entry of the cache names a file of the request; the files the request
\* wrote before the failure stay in the output directory.
C11_NothingCached ==
    \A r \in Req :
       hist[r].sfailed # <<>> =>
          /\ pc[r] = "Errored"
          /\ resp[r] = JSONError(500, hist[r].sfailed[1][2])
          /\ Len(hist[r].sfailed) = 1
          /\ hist[r].slog[Len(hist[r].slog)] = hist[r].sfailed[1][1]
          /\ ~hist[r].put /\ r \notin touched
          /\ \A f \in FilesOf(r) : Url(f.path) \notin CachedUrls
          /\ {f.path : f \in FilesOf(r)} = hist[r].wrote

\* the dest store failed after the source result was saved, and the saved
\* source file is still there while another request's entry is cached
C11_Witness ==
    \E r \in Req :
       /\ pc[r] = "Errored"
       /\ hist[r].slog = <<"source", "dest">>
       /\ hist[r].sfailed # <<>>
       /\ \E f \in FilesOf(r) : f.content # Truncated
       /\ cache # <<>>

\* the letters of the accepted extensions, in either case
SameLetter(c, d) ==
    c = d \/ <<c, d>> \in {<<"P", "p">>, <<"N", "n">>, <<"G", "g">>, <<"J", "j">>, <<"E", "e">>}
\* s reads png, jpg or jpeg when the case of its letters is ignored
IsImageExtension(s) ==
    \E e \in {<<"p", "n", "g">>, <<"j", "p", "g">>, <<"j", "p", "e", "g">>} :
       Len(s) = Len(e) /\ \A i \in 1..Len(e) : SameLetter(s[i], e[i])
\* name has a '.', and what follows its last '.' is an image extension
HasImageExtension(name) ==
    \E i \in 1..Len(name) :
       /\ name[i] = "."
       /\ \A j \in (i + 1)..Len(name) : name[j] # "."
       /\ IsImageExtension(SubSeq(name, i + 1, Len(name)))
Answered(name, answer) == probe.asked /\ probe.filename = name => probe.answer = answer

\* C12: allowed_file(filename) is true exactly when the filename has a '.'
\* and the lower-cased text after its last '.' is png, jpg or jpeg: a.png
\* and a.PNG are accepted; a.txt, noext, a.png.txt and the empty filename
\* are refused.
C12_Validator ==
    /\ probe.asked => (probe.answer <=> HasImageExtension(probe.filename))
    /\ Answered(<<"a", ".", "p", "n", "g">>, TRUE)
    /\ Answered(<<"a", ".", "P", "N", "G">>, TRUE)
    /\ Answered(<<"a", ".", "t", "x", "t">>, FALSE)
    /\ Answered(<<"n", "o", "e", "x", "t">>, FALSE)
    /\ Answered(<<"a", ".", "p", "n", "g", ".", "t", "x", "t">>, FALSE)
    /\ Answered(<<>>, FALSE)

\* allowed_file has refused a.png.txt, whose first extension is an image's
C12_Witness ==
    /\ probe.asked
    /\ probe.filename = <<"a", ".", "p", "n", "g", ".", "t", "x", "t">>
    /\ ~probe.answer

\* the keys whose entries have not expired
LiveKeys == {cache[i].key : i \in {j \in 1..Len(cache) : now < cache[j].expires}}
\* the key of ks that was used (inserted or read by a hit) longest ago
LeastRecentlyUsed(ks) ==
    order[CHOOSE i \in 1..Len(order) :
             /\ order[i] \in ks
             /\ \A j \in 1..(i - 1) : order[j] \notin ks]
\* request r writes the cache in this step
Puts(r) == hist'[r].put /\ ~hist[r].put
\* more than maxsize inserts of distinct keys, no hit at all and no entry
\* expired
OnlyFreshInserts ==
    /\ \A r \in Req : ~hist[r].hit
    /\ Len(order) = Cardinality({r \in Req : hist[r].put})
    /\ Len(order) > maxsize
    /\ \A r \in Req : hist[r].put => now < hist[r].putTime + ttl
MostRecentOnly ==
    OnlyFreshInserts =>
       \A i \in 1..Len(order) :
          Contains(cache, order[i], now) <=> i > Len(order) - maxsize

\* C13: the insertion of a new key into a cache that holds maxsize
\* unexpired entries removes exactly one entry, the one used (inserted or
\* read by a hit) longest ago, and leaves the others as they were; so after
\* more than maxsize inserts of distinct keys and no hit, a lookup finds
\* the maxsize keys inserted last and no earlier one.
C13_LRU ==
    [][/\ \A r \in Req :
            Puts(r) /\ loc[r].cache_key \notin Keys(cache)
                    /\ Cardinality(LiveKeys) = maxsize =>
               LET victim == LeastRecentlyUsed(LiveKeys)
               IN  /\ Keys(cache') = (LiveKeys \ {victim}) \cup {loc[r].cache_key}
                   /\ \A e \in Entries(cache) : e.key # victim => e \in Entries(cache')
       /\ MostRecentOnly']_vars

\* two keys inserted, the older one read by a hit, then a third key
\* inserted within the lifetime of both: the older one is still there and
\* the one inserted second is gone
C13_Witness ==
    \E r1, r2, r3, r4 \in Req :
       /\ r1 < r2 /\ r2 < r3 /\ r3 < r4
       /\ MissDone(r1) /\ MissDone(r2) /\ HitDone(r3) /\ hist[r4].put
       /\ hist[r3].from = r1
       /\ loc[r4].cache_key \notin {loc[r1].cache_key, loc[r2].cache_key}
       /\ now < hist[r1].putTime + ttl
       /\ Contains(cache, loc[r1].cache_key, now)
       /\ ~Contains(cache, loc[r2].cache_key, now)

\* the pair of locations request r computed on the miss path
ResultOf(r) == <<Url(loc[r].source_path), Url(loc[r].dest_path)>>
\* r and q, with the same cache key, both found no entry and both wrote
\* the cache, q last
BothMissed(r, q) ==
    /\ r # q
    /\ hist[r].checked /\ hist[q].checked
    /\ loc[r].cache_key = loc[q].cache_key
    /\ ~hist[r].hit /\ ~hist[q].hit
    /\ hist[r].put /\ hist[q].put
    /\ lastPut[loc[q].cache_key] = q

\* C14: when two requests with the same cache key both find no entry, both
\* transform and store (four files in all) and both write the cache, the
\* entry left in the cache is the result of the one that wrote last, and the
\* hits that follow return that result.
C14_LastWriteWins ==
    \A r, q \in Req :
       BothMissed(r, q) =>
          LET k == loc[q].cache_key
          IN  /\ Cardinality(hist[r].wrote \cup hist[q].wrote) = 4
              /\ hist[r].wrote \cup hist[q].wrote \subseteq {f.path : f \in files}
              /\ k \in Keys(cache) => cache[IndexOf(cache, k)].value = ResultOf(q)
              /\ pc[q] = "Responded" =>
                    <<resp[q].source_result, resp[q].dest_result>> = ResultOf(q)
              /\ \A h \in Req :
                    HitDone(h) /\ loc[h].cache_key = k /\ hist[h].from = q =>
                       <<resp[h].source_result, resp[h].dest_result>> = ResultOf(q)

\* q had been received and not answered when r found no entry; both took
\* the miss path for the same pair and wrote the cache, q last, and a third
\* request was answered from the entry of q
C14_Witness ==
    \E r, q, h \in Req :
       /\ BothMissed(r, q)
       /\ q \in hist[r].inflight
       /\ MissDone(r) /\ MissDone(q)
       /\ ResultOf(r) # ResultOf(q)
       /\ HitDone(h) /\ hist[h].from = q
       /\ <<resp[h].source_result, resp[h].dest_result>> = ResultOf(q)

\* A request is at or past its lookup while another one is between its own
\* lookup and its cache write. No state of Spec or SpecRepeat satisfies it:
\* the handler is not suspended between lines 105 and 127, so the second
\* miss of C14 comes from an entry that expired or was evicted.
LookupDuringMiss ==
    \E r, q \in Req :
       /\ r # q
       /\ pc[r] \in {"Processing", "ProcessingDest", "Stored", "StoredSource", "StoredBoth"}
       /\ pc[q] \in {"CacheChecked", "CacheHit", "Processing", "ProcessingDest",
                     "Stored", "StoredSource", "StoredBoth"}

\* r found no entry for its key at line 105
TookMissPath(r) == hist[r].checked /\ ~hist[r].hit
Paths(dir) == {f.path : f \in dir}
\* every file of the directory is still there, as it was
OnlyGrows == \A f \in files : f \in files'
\* the files added by the step have paths the directory did not have
NewNames == \A g \in files' \ files : g.path \notin Paths(files)

\* C15 (as claimed): every request that takes the miss path writes exactly
\* two files.
C15_EveryMissWritesTwo ==
    \A r \in Req :
       TookMissPath(r) /\ pc[r] \in Terminal => Cardinality(hist[r].wrote) = 2

\* C15 (amended): every request that takes the miss path and whose
\* transforms and stores succeed has written exactly two files, at two
\* different paths that were not in the output directory before, whatever
\* was processed earlier and also when source and dest are the same bytes;
\* no step overwrites or removes a file of the output directory.
C15_FreshNames ==
    [][/\ OnlyGrows /\ NewNames
       /\ \A r \in Req :
             LET mine == {f \in files' : f.path \in hist'[r].wrote}
             IN  /\ Cardinality(hist'[r].wrote) = Cardinality(mine)
                 /\ TookMissPath(r) /\ hist'[r].put =>
                       /\ Cardinality(hist'[r].wrote) = 2
                       /\ hist'[r].wrote = {loc'[r].source_path, loc'[r].dest_path}
                       /\ \A o \in Req \ {r} : hist'[o].wrote \cap hist'[r].wrote = {}]_vars

\* after a request for (A, B), a request whose source and dest are both A
\* has stored two files of its own at two different paths: four files
C15_Witness ==
    \E r, q \in Req :
       /\ r < q
       /\ MissDone(r) /\ MissDone(q)
       /\ inp[r].src = inp[q].src /\ inp[r].dst # inp[q].dst
       /\ inp[q].src = inp[q].dst
       /\ loc[q].source_path # loc[q].dest_path
       /\ Cardinality(files) = 4

\* r inserted the entry e of the cache
Inserted(r, e) ==
    /\ hist[r].put
    /\ loc[r].cache_key = e.key
    /\ e.expires = hist[r].putTime + ttl
\* both transforms and both stores of r were made and none raised
AllSucceeded(r) ==
    /\ hist[r].xlog = <<"source", "dest">> /\ hist[r].xfailed = <<>>
    /\ hist[r].slog = <<"source", "dest">> /\ hist[r].sfailed = <<>>
\* the location names a file of the output directory that holds content
Holds(location, content) ==
    \E f \in files : Url(f.path) = location /\ f.content = content

\* C16: every entry of the cache was inserted by a request whose two
\* transforms and two stores succeeded; its value is the pair of locations
\* that request answers with, and both locations name files of the output
\* directory, holding the two results.
C16_EntriesComplete ==
    \A e \in Entries(cache) :
       \E r \in Req :
          /\ Inserted(r, e)
          /\ AllSucceeded(r)
          /\ pc[r] \in {"CachePopulated", "Responded"}
          /\ pc[r] = "Responded" => resp[r] = JSONResult(e.value[1], e.value[2])
          /\ Holds(e.value[1], loc[r].source_processed)
          /\ Holds(e.value[2], loc[r].dest_processed)
          /\ loc[r].source_processed # NoImage /\ loc[r].dest_processed # NoImage

\* the cache holds the entry of a request that was answered 200, while
\* another request's store failed and left its file in the directory
C16_Witness ==
    \E r, q \in Req :
       /\ MissDone(r)
       /\ \E e \in Entries(cache) : Inserted(r, e) /\ resp[r].source_result = e.value[1]
       /\ pc[q] = "Errored" /\ hist[q].sfailed # <<>> /\ hist[q].wrote # {}

\* the three documented answers: 200 with two locations, 400 and 500 with a
\* JSON error that names the cause
Documented(response) ==
    \/ response.status = 200 /\ response.source_result # NoUrl /\ response.dest_result # NoUrl
    \/ response.status = 400 /\ response.error \in {MsgNoFile, MsgBadFormat}
    \/ /\ response.status = 500
       /\ response.error \in {"cannot identify image file", "encoder error",
                              "permission denied", "no space left on device"}

\* C17 (as claimed): a request that reached the cache check and found the
\* key goes on to return the stored pair, one that did not find it goes on
\* to Processing, and every answer is one of the documented ones.
C17_LookupNeverFails ==
    \A r \in Req :
       /\ hist[r].checked /\ hist[r].hit /\ pc[r] \in Terminal =>
             /\ pc[r] = "Responded"
             /\ resp[r] = JSONResult(loc[r].result_urls[1], loc[r].result_urls[2])
       /\ hist[r].checked /\ ~hist[r].hit =>
             pc[r] # "CacheHit" /\ loc[r].result_urls = <<>>
       /\ pc[r] \in Terminal => Documented(resp[r])

\* r was answered 400
Rejected(r) == resp[r].status = 400
\* the shared state: the cache with its order of use, the output directory,
\* the scratch files and the names drawn
shared == <<cache, order, lastPut, touched, files, scratch, uuids>>

\* C18: the step that answers 400 changes nothing of the shared state, and a
\* request answered 400 has read and fingerprinted no bytes, has not
\* consulted or changed the cache, has created no scratch file and has
\* written no file.
C18_RejectionHasNoEffect ==
    [][\A r \in Req :
          /\ Rejected(r)' /\ ~Rejected(r) => UNCHANGED shared
          /\ Rejected(r)' =>
                /\ loc'[r] = NoLocals
                /\ hist'[r] = NoHist
                /\ r \notin touched'
                /\ \A k \in AllKeys : lastPut'[k] # r
                /\ \A t \in scratch' : t[1] # r]_vars

\* a request is refused for its extension while the cache holds the entry
\* of an earlier request and the output directory holds its files
C18_Witness ==
    \E r, q \in Req :
       /\ r < q
       /\ MissDone(r)
       /\ Rejected(q) /\ resp[q].error = MsgBadFormat
       /\ cache # <<>> /\ files # {}

=============================================================================
